---- MODULE Spec2Model ----
(***************************************************************************)
(* asyncio REPL (Lib/asyncio/console.py): the interactive thread           *)
(* (REPLThread.run), the console's runcode bridge onto the event loop, and *)
(* the driver loop of interact() that runs the event loop on the main      *)
(* thread, handles KeyboardInterrupt and exits the process.                *)
(*                                                                         *)
(* The event loop itself (ready queue, tasks, _chain_future) is not part   *)
(* of the two source files; it is modelled from the Scheduler Handle       *)
(* contract of the specification (section 4.2).                            *)
(***************************************************************************)
EXTENDS Integers, Sequences, FiniteSets, TLC

\* ---------------------------------------------------------------- bounds
MaxStmts == 2
MaxInterrupts == 1

Stmts == 1..MaxStmts

\* ------------------------------------------------------ inputs of a session
ExitCodes == {3, 7}
Values == {42}
NoneMsg == "<None>"
Banners == {NoneMsg, "hello"}
ExitMsgs == {NoneMsg, "", "bye"}

\* interact(local=...): None, or a dict over these keys. "asyncio" is also a
\* key the host seeds (line 153).
CallerKeys == {"my_var", "asyncio"}
CallerValues == {"content of my_var"}
NoLocal == [given |-> FALSE, map |-> [k \in {} |-> ""]]
Locals == {NoLocal} \cup
          {[given |-> TRUE, map |-> m] :
              m \in UNION {[S -> CallerValues] : S \in SUBSET CallerKeys}}

DefaultBanner == "asyncio REPL banner"
DefaultExitMsg == "exiting asyncio REPL...\n"
EchoLine == ">>> import asyncio\n"
Prompt == ">>> "
InterruptNotice == "\nKeyboardInterrupt\n"
Traceback == "<traceback>"
InternalErrorMsg == "Internal error, "

\* What a compiled statement does when the callback calls func(), and, for
\* a statement with a top-level await, how its coroutine ends.
SyncKinds == {"value", "error", "exit", "kbint"}
AwaitKinds == {"await_value", "await_error", "await_exit", "spawn_fail"}
Kinds == SyncKinds \cup AwaitKinds

NoStmt == [kind |-> "none", code |-> 0, val |-> 0]
NoFuture == [st |-> "none", val |-> 0, err |-> "", code |-> 0, writes |-> 0]
PendingFuture == [st |-> "pending", val |-> 0, err |-> "", code |-> 0, writes |-> 0]

\* future.set_result(v) and future.set_exception(e); writes counts the
\* settlements the future has received.
set_result(f, v) ==
    [st |-> "fulfilled", val |-> v, err |-> "", code |-> 0, writes |-> f.writes + 1]

set_exception(f, e, c) ==
    [st |-> "failed", val |-> 0, err |-> e, code |-> c, writes |-> f.writes + 1]

VARIABLES
    can_use_pyrepl,         \* REPLThread.can_use_pyrepl
    banner,                 \* interact(banner=...)
    exitmsg,                \* interact(exitmsg=...)
    startup,                \* PYTHONSTARTUP names a script
    local,                  \* interact(local=...)
    repl_locals,            \* the dict console.locals was built from (lines 153-162)
    locals,                 \* console.locals: the set of bindings made
    repl_future,            \* console.repl_future: 0 is None, else the task of statement n
    keyboard_interrupted,   \* console.keyboard_interrupted: "None" or "True"
    return_code,            \* console.return_code
    stmts,                  \* the statements entered so far
    submitted,              \* where the driver was at each call_soon_threadsafe
    cur,                    \* number of statements entered (the current runcode call)
    future,                 \* the concurrent.futures.Future of each runcode call
    task,                   \* the asyncio task of each statement
    cancel_requested,       \* tasks on which cancel() had effect
    ready,                  \* the loop's queue of ready handles
    stopping,               \* a stop of the loop has been requested and not yet observed
    tpc,                    \* position of the interactive thread in REPLThread.run
    hook,                   \* the reader's threading_hook was poked by interrupt()
    dpc,                    \* position of the main thread in interact()
    interrupts,             \* number of KeyboardInterrupts delivered to the main thread
    exit_status,            \* the process exit status, -1 while the process runs
    out,                    \* everything written to the console, in order
    ran,                    \* history: statements whose callback has run on the loop
    returned,               \* history: statements whose runcode call has returned
    ret,                    \* history: what runcode returned for each statement (0 is None)
    printed,                \* history: what runcode printed for each statement
    raised,                 \* history: <<n, c>> for each SystemExit(c) raised by statement n
    ended                   \* history: how REPLThread.run left its try block

config == <<can_use_pyrepl, banner, exitmsg, startup, local, repl_locals>>
console == <<locals, repl_future, keyboard_interrupted, return_code>>
bridge == <<stmts, submitted,
                   cur, future, task, cancel_requested>>
sched == <<ready, stopping>>
threads == <<tpc, hook, dpc, interrupts, exit_status>>
history == <<ran, returned, ret, printed, raised, ended>>
vars == <<config, console, bridge, sched, threads, out, history>>

\* ------------------------------------------------------------------ helpers
Truthy(x) == x \notin {NoneMsg, "", "None"}

TaskDone(n) == task[n] \in {"done_value", "done_error", "done_exit", "cancelled"}

Alive == dpc # "exited"

CallbackHandle(n) == [type |-> "callback", n |-> n]
StepHandle(n) == [type |-> "step", n |-> n]
ChainHandle(n) == [type |-> "chain", n |-> n]
StopHandle == [type |-> "stop", n |-> 0]

\* interact, lines 153-160: the host's entries, then repl_locals.update(local).
HostKeys == {"asyncio", "__name__", "__package__", "__loader__", "__spec__",
             "__builtins__", "__file__"}
HostValue == "host value"
HostLocals == [k \in HostKeys |-> HostValue]

\* dict.update: the entries of m replace and extend those of d.
Update(d, m) ==
    [k \in DOMAIN d \cup DOMAIN m |-> IF k \in DOMAIN m THEN m[k] ELSE d[k]]

\* Faulty variant of SeedLocals: the host's entries are applied last.
SeedLocalsHostWins(l) ==
    IF l.given THEN Update(l.map, HostLocals) ELSE HostLocals

SeedLocals(l) ==
    IF l.given THEN Update(HostLocals, l.map) ELSE HostLocals

\* ------------------------------------------------------------------- Init
\* The state when interact() has built the loop and the console, started the
\* interactive thread, and is about to call run_forever for the first time
\* (lines 142-194, 21-29).
InitState ==
    /\ locals = {}
    /\ repl_future = 0
    /\ keyboard_interrupted = "None"
    /\ return_code = 0
    /\ stmts = [n \in Stmts |-> NoStmt]
    /\ submitted = [n \in Stmts |-> "none"]
    /\ cur = 0
    /\ future = [n \in Stmts |-> NoFuture]
    /\ task = [n \in Stmts |-> "none"]
    /\ cancel_requested = [n \in Stmts |-> FALSE]
    /\ ready = <<>>
    /\ stopping = FALSE
    /\ tpc = "banner"
    /\ hook = FALSE
    /\ dpc = "run_forever"
    /\ interrupts = 0
    /\ exit_status = -1
    /\ out = <<>>
    /\ ran = {}
    /\ returned = {}
    /\ ret = [n \in Stmts |-> 0]
    /\ printed = [n \in Stmts |-> ""]
    /\ raised = {}
    /\ ended = ""

\* Sessions with the default banner and exit message, in both reader modes.
Init ==
    /\ can_use_pyrepl \in BOOLEAN
    /\ banner = NoneMsg
    /\ exitmsg = NoneMsg
    /\ startup = TRUE
    /\ local = NoLocal
    /\ repl_locals = SeedLocals(local)
    /\ InitState

\* Sessions over every exitmsg argument.
InitExitMsg ==
    /\ can_use_pyrepl = TRUE
    /\ banner = NoneMsg
    /\ exitmsg \in ExitMsgs
    /\ startup = TRUE
    /\ local = NoLocal
    /\ repl_locals = SeedLocals(local)
    /\ InitState

\* Sessions over every banner argument.
InitBanner ==
    /\ can_use_pyrepl \in BOOLEAN
    /\ banner \in Banners
    /\ exitmsg = NoneMsg
    /\ startup = TRUE
    /\ local = NoLocal
    /\ repl_locals = SeedLocals(local)
    /\ InitState

\* Sessions over every local argument.
InitLocals ==
    /\ can_use_pyrepl = TRUE
    /\ banner = NoneMsg
    /\ exitmsg = NoneMsg
    /\ startup = TRUE
    /\ local \in Locals
    /\ repl_locals = SeedLocals(local)
    /\ InitState

\* ------------------------------------------------- REPLThread.run, lines 91-130
\* Faulty variant of WriteBanner: the banner is written a second time (as the
\* reader would if it were not passed banner="").
WriteBannerTwice ==
    /\ Alive /\ tpc = "banner"
    /\ out' = out \o <<IF banner = NoneMsg THEN DefaultBanner ELSE banner,
                       IF banner = NoneMsg THEN DefaultBanner ELSE banner>>
    /\ tpc' = "startup"
    /\ UNCHANGED <<config, console, bridge, sched, hook, dpc, interrupts,
                   exit_status, history>>

\* line 93: self.console.write(self.banner); a banner of None was replaced by
\* the generated text in __init__ (lines 82-88).
BannerText == IF banner = NoneMsg THEN DefaultBanner ELSE banner

WriteBanner ==
    /\ Alive /\ tpc = "banner"
    /\ out' = Append(out, BannerText)
    /\ tpc' = "startup"
    /\ UNCHANGED <<config, console, bridge, sched, hook, dpc, interrupts,
                   exit_status, history>>

\* line 93 raising: the try block is left for the finally clause.
WriteBannerFails ==
    /\ Alive /\ tpc = "banner"
    /\ tpc' = "finally"
    /\ ended' = "banner_fail"
    /\ UNCHANGED <<config, console, bridge, sched, hook, dpc, interrupts,
                   exit_status, out, ran, returned, ret, printed, raised>>

\* lines 95-101: the startup script is exec'd against console.locals by the
\* interactive thread itself. Binding <<0, 1>> is the script's.
RunStartup ==
    /\ Alive /\ tpc = "startup"
    /\ locals' = IF startup THEN locals \cup {<<0, 1>>} ELSE locals
    /\ tpc' = "echo"
    /\ UNCHANGED <<config, repl_future, keyboard_interrupted, return_code, bridge,
                   sched, hook, dpc, interrupts, exit_status, out, history>>

\* lines 99-101 raising (unreadable file, error in the script).
RunStartupFails ==
    /\ Alive /\ tpc = "startup" /\ startup
    /\ tpc' = "finally"
    /\ ended' = "startup_fail"
    /\ UNCHANGED <<config, console, bridge, sched, hook, dpc, interrupts,
                   exit_status, out, ran, returned, ret, printed, raised>>

\* lines 103-106
WriteEcho ==
    /\ Alive /\ tpc = "echo"
    /\ out' = Append(out, EchoLine)
    /\ tpc' = "prompt"
    /\ UNCHANGED <<config, console, bridge, sched, hook, dpc, interrupts,
                   exit_status, history>>

\* The reader called at line 113 or 123 shows a fresh prompt and blocks.
WritePrompt ==
    /\ Alive /\ tpc = "prompt"
    /\ out' = Append(out, Prompt)
    /\ tpc' = "read"
    /\ UNCHANGED <<config, console, bridge, sched, hook, dpc, interrupts,
                   exit_status, history>>

\* runcode, lines 31-61: a fresh future, the callback submitted to the loop
\* with call_soon_threadsafe, then the thread blocks in future.result().
runcode(s) ==
    /\ Alive /\ tpc = "read" /\ cur < MaxStmts
    /\ cur' = cur + 1
    /\ stmts' = [stmts EXCEPT ![cur + 1] = s]
    /\ submitted' = [submitted EXCEPT ![cur + 1] =
                        CASE dpc = "run_forever" -> "loop"
                          [] dpc = "except" -> "gap"
                          [] OTHER -> "after"]
    /\ future' = [future EXCEPT ![cur + 1] = PendingFuture]
    /\ ready' = Append(ready, CallbackHandle(cur + 1))
    /\ tpc' = "wait"
    /\ UNCHANGED <<config, console, task, cancel_requested, stopping, hook, dpc,
                   interrupts, exit_status, out, history>>

ReadStatement ==
    \E k \in Kinds :
      \E c \in (IF k \in {"exit", "await_exit"} THEN ExitCodes ELSE {0}) :
        \E v \in (IF k \in {"value", "await_value"} THEN Values ELSE {0}) :
          runcode([kind |-> k, code |-> c, val |-> v])

\* The read aborted by the poke of interrupt(): the loop restarts with a fresh
\* prompt.
ReadAborted ==
    /\ Alive /\ tpc = "read" /\ hook
    /\ hook' = FALSE
    /\ tpc' = "prompt"
    /\ UNCHANGED <<config, console, bridge, sched, dpc, interrupts, exit_status,
                   out, history>>

\* End of input: run_multiline_interactive_console / console.interact return.
ReadEOF ==
    /\ Alive /\ tpc = "read"
    /\ tpc' = "finally"
    /\ ended' = "eof"
    /\ UNCHANGED <<config, console, bridge, sched, hook, dpc, interrupts,
                   exit_status, out, ran, returned, ret, printed, raised>>

\* lines 114-116: SystemExit out of the reader (the exit and quit commands).
ReadSystemExit ==
    /\ Alive /\ tpc = "read"
    /\ tpc' = "finally"
    /\ ended' = "quit"
    /\ UNCHANGED <<config, console, bridge, sched, hook, dpc, interrupts,
                   exit_status, out, ran, returned, ret, printed, raised>>

\* lines 108-123: the reader fails with any other exception. Only the pyrepl
\* branch has the except clause of lines 117-121; out of console.interact (line
\* 123) the exception goes straight to the finally clause.
ReaderFails ==
    /\ Alive /\ tpc = "read"
    /\ IF can_use_pyrepl
          THEN /\ out' = out \o <<Traceback, InternalErrorMsg>>
               /\ return_code' = 1
          ELSE UNCHANGED <<out, return_code>>
    /\ tpc' = "finally"
    /\ ended' = "internal"
    /\ UNCHANGED <<config, locals, repl_future, keyboard_interrupted, bridge, sched,
                   hook, dpc, interrupts, exit_status, ran, returned, ret, printed,
                   raised>>

\* Faulty variant of Finally: the thread ends without asking the loop to stop.
FinallyNoStop ==
    /\ Alive /\ tpc = "finally"
    /\ tpc' = "dead"
    /\ UNCHANGED <<config, console, bridge, sched, hook, dpc, interrupts,
                   exit_status, out, history>>

\* lines 124-130: self.loop.call_soon_threadsafe(self.loop.stop)
Finally ==
    /\ Alive /\ tpc = "finally"
    /\ ready' = Append(ready, StopHandle)
    /\ tpc' = "dead"
    /\ UNCHANGED <<config, console, bridge, stopping, hook, dpc, interrupts,
                   exit_status, out, history>>

\* runcode, lines 63-73: future.result() returns or raises.

\* line 64: the future's value is returned.
RuncodeValue ==
    /\ ret' = [ret EXCEPT ![cur] = future[cur].val]
    /\ UNCHANGED <<return_code, stopping, out, printed>>

\* Faulty variant of RuncodeSystemExit: the code is recorded but the loop is
\* not asked to stop.
RuncodeSystemExitNoStop ==
    /\ return_code' = future[cur].code
    /\ UNCHANGED <<stopping, ret, out, printed>>

\* lines 65-68: SystemExit came out of the future; loop.stop() is called from
\* the interactive thread and runcode returns None to the reader.
RuncodeSystemExit ==
    /\ return_code' = future[cur].code
    /\ stopping' = TRUE
    /\ UNCHANGED <<ret, out, printed>>

\* Faulty variant of RuncodeError: a failed statement also records exit code 1.
RuncodeErrorSetsCode ==
    /\ IF Truthy(keyboard_interrupted)
          THEN /\ out' = Append(out, InterruptNotice)
               /\ printed' = [printed EXCEPT ![cur] = "notice"]
          ELSE /\ out' = Append(out, Traceback)
               /\ printed' = [printed EXCEPT ![cur] = "traceback"]
    /\ return_code' = 1
    /\ UNCHANGED <<stopping, ret>>

\* lines 69-73: any other exception.
RuncodeError ==
    /\ IF Truthy(keyboard_interrupted)
          THEN /\ out' = Append(out, InterruptNotice)
               /\ printed' = [printed EXCEPT ![cur] = "notice"]
          ELSE /\ out' = Append(out, Traceback)
               /\ printed' = [printed EXCEPT ![cur] = "traceback"]
    /\ UNCHANGED <<return_code, stopping, ret>>

\* Faulty variant of RuncodeReturn: runcode does not block on the future and
\* returns while it is still pending.
RuncodeReturnNoWait ==
    /\ Alive /\ tpc = "wait"
    /\ CASE future[cur].st \in {"pending", "fulfilled"} -> RuncodeValue
         [] future[cur].err = "exit" -> RuncodeSystemExit
         [] OTHER -> RuncodeError
    /\ returned' = returned \cup {cur}
    /\ tpc' = "prompt"
    /\ UNCHANGED <<config, locals, repl_future, keyboard_interrupted, bridge, ready,
                   hook, dpc, interrupts, exit_status, ran, raised, ended>>

\* line 63: future.result() blocks until the future is settled.
RuncodeReturn ==
    /\ Alive /\ tpc = "wait"
    /\ future[cur].st \in {"fulfilled", "failed"}
    /\ CASE future[cur].st = "fulfilled" -> RuncodeValue
         [] future[cur].err = "exit" -> RuncodeSystemExit
         [] OTHER -> RuncodeError
    /\ returned' = returned \cup {cur}
    /\ tpc' = "prompt"
    /\ UNCHANGED <<config, locals, repl_future, keyboard_interrupted, bridge, ready,
                   hook, dpc, interrupts, exit_status, ran, raised, ended>>

\* ------------------------------------- runcode's callback, lines 34-59
\* Each branch gives the callback's effect on the console, the future, the
\* task table and the loop; h is the rest of the ready queue.

\* lines 39-42: func() raised SystemExit: the future is left pending.
CallbackSystemExit(n, h) ==
    /\ return_code' = stmts[n].code
    /\ stopping' = TRUE
    /\ raised' = raised \cup {<<n, stmts[n].code>>}
    /\ ready' = h
    /\ UNCHANGED <<locals, repl_future, keyboard_interrupted, future, task>>

\* Faulty variant of CallbackKeyboardInterrupt: the interrupt is passed to the
\* future without being recorded on the console.
CallbackKeyboardInterruptNoFlag(n, h) ==
    /\ future' = [future EXCEPT ![n] = set_exception(future[n], "kbint", 0)]
    /\ ready' = h
    /\ UNCHANGED <<locals, repl_future, keyboard_interrupted, return_code, stopping,
                   task, raised>>

\* lines 43-46: func() raised KeyboardInterrupt.
CallbackKeyboardInterrupt(n, h) ==
    /\ keyboard_interrupted' = "True"
    /\ future' = [future EXCEPT ![n] = set_exception(future[n], "kbint", 0)]
    /\ ready' = h
    /\ UNCHANGED <<locals, repl_future, return_code, stopping, task, raised>>

\* lines 47-49: func() raised any other exception.
CallbackError(n, h) ==
    /\ future' = [future EXCEPT ![n] = set_exception(future[n], "error", 0)]
    /\ ready' = h
    /\ UNCHANGED <<locals, repl_future, keyboard_interrupted, return_code, stopping,
                   task, raised>>

\* Faulty variant of CallbackValue: the future is resolved with None instead
\* of the statement's value.
CallbackValueNone(n, h) ==
    /\ locals' = locals \cup {<<n, 1>>}
    /\ future' = [future EXCEPT ![n] = set_result(future[n], 0)]
    /\ ready' = h
    /\ UNCHANGED <<repl_future, keyboard_interrupted, return_code, stopping, task, raised>>

\* lines 36-38, 51-53: func() ran the whole statement against self.locals
\* (binding <<n, 1>>) and returned a plain value.
CallbackValue(n, h) ==
    /\ locals' = locals \cup {<<n, 1>>}
    /\ future' = [future EXCEPT ![n] = set_result(future[n], stmts[n].val)]
    /\ ready' = h
    /\ UNCHANGED <<repl_future, keyboard_interrupted, return_code, stopping, task, raised>>

\* Faulty variant of CallbackSpawn: the coroutine object is handed to the
\* future as if it were a plain value; no task is created.
CallbackSpawnNoTask(n, h) ==
    /\ future' = [future EXCEPT ![n] = set_result(future[n], 0)]
    /\ ready' = h
    /\ UNCHANGED <<locals, repl_future, keyboard_interrupted, return_code, stopping,
                   task, raised>>

\* Faulty variant of CallbackSpawn: after chaining the task the callback falls
\* through to set_result, so the task's outcome settles the future again.
CallbackSpawnAlsoSettles(n, h) ==
    /\ repl_future' = n
    /\ task' = [task EXCEPT ![n] = "created"]
    /\ future' = [future EXCEPT ![n] = set_result(future[n], 0)]
    /\ ready' = Append(h, StepHandle(n))
    /\ UNCHANGED <<locals, keyboard_interrupted, return_code, stopping, raised>>

\* lines 55-57: func() returned a coroutine; create_task schedules its first
\* step and _chain_future ties the task's outcome to the future.
CallbackSpawn(n, h) ==
    /\ repl_future' = n
    /\ task' = [task EXCEPT ![n] = "created"]
    /\ ready' = Append(h, StepHandle(n))
    /\ UNCHANGED <<locals, keyboard_interrupted, return_code, stopping, future, raised>>

\* lines 58-59: create_task raised.
CallbackSpawnFails(n, h) ==
    /\ future' = [future EXCEPT ![n] = set_exception(future[n], "error", 0)]
    /\ ready' = h
    /\ UNCHANGED <<locals, repl_future, keyboard_interrupted, return_code, stopping,
                   task, raised>>

callback(n, h) ==
    /\ CASE stmts[n].kind = "exit" -> CallbackSystemExit(n, h)
         [] stmts[n].kind = "kbint" -> CallbackKeyboardInterrupt(n, h)
         [] stmts[n].kind = "error" -> CallbackError(n, h)
         [] stmts[n].kind = "value" -> CallbackValue(n, h)
         [] stmts[n].kind = "spawn_fail" -> CallbackSpawnFails(n, h)
         [] OTHER -> CallbackSpawn(n, h)
    /\ ran' = ran \cup {n}
    /\ UNCHANGED <<config, stmts, submitted,
                   cur, cancel_requested, threads, out, returned, ret,
                   printed, ended>>

\* ------------------------------------------------ the event loop (contract)
\* run_forever executes the ready handles in FIFO order, one at a time, until
\* a stop request is observed; no handle runs once a stop has been requested.
LoopReady(type) ==
    /\ Alive /\ dpc = "run_forever" /\ ~stopping
    /\ ready # <<>>
    /\ Head(ready).type = type

RunCallback ==
    /\ LoopReady("callback")
    /\ callback(Head(ready).n, Tail(ready))

\* One step of the task of statement n. A cancelled task ends at its next
\* step; the first step runs to the suspension point (binding <<n, 1>>), the
\* second one runs the rest (binding <<n, 2>> when it ends normally).
TaskStep(n, h) ==
    /\ IF cancel_requested[n]
          THEN /\ task' = [task EXCEPT ![n] = "cancelled"]
               /\ ready' = Append(h, ChainHandle(n))
               /\ UNCHANGED <<locals, raised>>
          ELSE IF task[n] = "created"
          THEN /\ task' = [task EXCEPT ![n] = "suspended"]
               /\ locals' = locals \cup {<<n, 1>>}
               /\ ready' = Append(h, StepHandle(n))
               /\ UNCHANGED raised
          ELSE /\ task' = [task EXCEPT ![n] =
                              CASE stmts[n].kind = "await_value" -> "done_value"
                                [] stmts[n].kind = "await_exit" -> "done_exit"
                                [] OTHER -> "done_error"]
               /\ locals' = IF stmts[n].kind = "await_value"
                               THEN locals \cup {<<n, 2>>} ELSE locals
               /\ raised' = IF stmts[n].kind = "await_exit"
                               THEN raised \cup {<<n, stmts[n].code>>} ELSE raised
               /\ ready' = Append(h, ChainHandle(n))
    /\ UNCHANGED <<config, repl_future, keyboard_interrupted, return_code, stmts, submitted,
                   cur,
                   future, cancel_requested, stopping, threads, out, ran, returned,
                   ret, printed, ended>>

RunStep ==
    /\ LoopReady("step")
    /\ TaskStep(Head(ready).n, Tail(ready))

\* The task's done-callback installed by _chain_future: the task's value or
\* error settles the statement's future.
ChainFuture(n, h) ==
    /\ future' = [future EXCEPT ![n] =
          CASE task[n] = "done_value" ->
                 set_result(future[n], stmts[n].val)
            [] task[n] = "done_exit" ->
                 set_exception(future[n], "exit", stmts[n].code)
            [] task[n] = "cancelled" ->
                 set_exception(future[n], "cancelled", 0)
            [] OTHER ->
                 set_exception(future[n], "error", 0)]
    /\ ready' = h
    /\ UNCHANGED <<config, console, stmts, submitted,
                   cur, task, cancel_requested, stopping,
                   threads, out, history>>

RunChain ==
    /\ LoopReady("chain")
    /\ ChainFuture(Head(ready).n, Tail(ready))

\* loop.stop run as a handle (submitted at line 130).
RunStop ==
    /\ LoopReady("stop")
    /\ stopping' = TRUE
    /\ ready' = Tail(ready)
    /\ UNCHANGED <<config, console, bridge, threads, out, history>>

\* ------------------------------------------------ interact(), lines 196-209
\* line 199: KeyboardInterrupt comes out of run_forever on the main thread.
KeyboardInterrupt ==
    /\ Alive /\ dpc = "run_forever"
    /\ interrupts < MaxInterrupts
    /\ interrupts' = interrupts + 1
    /\ dpc' = "except"
    /\ UNCHANGED <<config, console, bridge, sched, tpc, hook, exit_status, out,
                   history>>

\* REPLThread.interrupt, lines 132-139: the new value of the reader's hook.
interrupt == IF can_use_pyrepl THEN TRUE ELSE hook

\* Faulty variant of HandleInterrupt: cancel() without the done() test.
HandleInterruptAlwaysCancel ==
    /\ Alive /\ dpc = "except"
    /\ keyboard_interrupted' = "True"
    /\ cancel_requested' =
          IF repl_future # 0
             THEN [cancel_requested EXCEPT ![repl_future] = TRUE]
             ELSE cancel_requested
    /\ hook' = interrupt
    /\ dpc' = "run_forever"
    /\ UNCHANGED <<config, locals, repl_future, return_code, stmts, submitted,
                   cur, future,
                   task, sched, tpc, interrupts, exit_status, out, ran, returned,
                   ret, printed, raised, ended>>

\* Faulty variant of HandleInterrupt: break instead of continue.
HandleInterruptBreak ==
    /\ Alive /\ dpc = "except"
    /\ keyboard_interrupted' = "True"
    /\ cancel_requested' =
          IF repl_future # 0 /\ ~TaskDone(repl_future)
             THEN [cancel_requested EXCEPT ![repl_future] = TRUE]
             ELSE cancel_requested
    /\ hook' = interrupt
    /\ dpc' = "exitmsg"
    /\ UNCHANGED <<config, locals, repl_future, return_code, stmts, submitted,
                   cur, future,
                   task, sched, tpc, interrupts, exit_status, out, ran, returned,
                   ret, printed, raised, ended>>

\* Faulty variant of HandleInterrupt: the pending task is not cancelled.
HandleInterruptNoCancel ==
    /\ Alive /\ dpc = "except"
    /\ keyboard_interrupted' = "True"
    /\ hook' = interrupt
    /\ dpc' = "run_forever"
    /\ UNCHANGED <<config, locals, repl_future, return_code, bridge, sched, tpc,
                   interrupts, exit_status, out, history>>

\* Faulty variant of HandleInterrupt: the handler asks the loop to stop before
\* it re-enters run_forever.
HandleInterruptStops ==
    /\ Alive /\ dpc = "except"
    /\ keyboard_interrupted' = "True"
    /\ cancel_requested' =
          IF repl_future # 0 /\ ~TaskDone(repl_future)
             THEN [cancel_requested EXCEPT ![repl_future] = TRUE]
             ELSE cancel_requested
    /\ hook' = interrupt
    /\ stopping' = TRUE
    /\ dpc' = "run_forever"
    /\ UNCHANGED <<config, locals, repl_future, return_code, stmts, submitted,
                   cur, future, task, ready, tpc, interrupts, exit_status, out,
                   history>>

\* lines 200-204
HandleInterrupt ==
    /\ Alive /\ dpc = "except"
    /\ keyboard_interrupted' = "True"
    /\ cancel_requested' =
          IF repl_future # 0 /\ ~TaskDone(repl_future)
             THEN [cancel_requested EXCEPT ![repl_future] = TRUE]
             ELSE cancel_requested
    /\ hook' = interrupt
    /\ dpc' = "run_forever"
    /\ UNCHANGED <<config, locals, repl_future, return_code, stmts, submitted,
                   cur, future,
                   task, sched, tpc, interrupts, exit_status, out, ran, returned,
                   ret, printed, raised, ended>>

\* lines 198, 205-206: run_forever returns because the stop was observed.
LoopExit ==
    /\ Alive /\ dpc = "run_forever" /\ stopping
    /\ stopping' = FALSE
    /\ dpc' = "exitmsg"
    /\ UNCHANGED <<config, console, bridge, ready, tpc, hook, interrupts,
                   exit_status, out, history>>

\* line 208: console.write(exitmsg or 'exiting asyncio REPL...\n')
ExitText == IF Truthy(exitmsg) THEN exitmsg ELSE DefaultExitMsg

WriteExitMsg ==
    /\ Alive /\ dpc = "exitmsg"
    /\ out' = Append(out, ExitText)
    /\ dpc' = "sys_exit"
    /\ UNCHANGED <<config, console, bridge, sched, tpc, hook, interrupts,
                   exit_status, history>>

\* line 209: sys.exit(console.return_code); the daemon thread dies with it.
SysExit ==
    /\ Alive /\ dpc = "sys_exit"
    /\ exit_status' = return_code
    /\ dpc' = "exited"
    /\ UNCHANGED <<config, console, bridge, sched, tpc, hook, interrupts, out,
                   history>>

\* -------------------------------------------------------------------- Next
Next ==
    \/ WriteBanner
    \/ WriteBannerFails
    \/ RunStartup
    \/ RunStartupFails
    \/ WriteEcho
    \/ WritePrompt
    \/ ReadStatement
    \/ ReadAborted
    \/ ReadEOF
    \/ ReadSystemExit
    \/ ReaderFails
    \/ Finally
    \/ RuncodeReturn
    \/ RunCallback
    \/ RunStep
    \/ RunChain
    \/ RunStop
    \/ KeyboardInterrupt
    \/ HandleInterrupt
    \/ LoopExit
    \/ WriteExitMsg
    \/ SysExit

Spec == Init /\ [][Next]_vars

SpecExitMsg == InitExitMsg /\ [][Next]_vars

SpecBanner == InitBanner /\ [][Next]_vars

\* Scheduling: the main thread keeps running (the loop executes ready handles
\* and observes a stop, the handler and the exit path of interact complete),
\* and the interactive thread goes on whenever it is not blocked on input or
\* on a pending future. Input, interrupts and failures are never forced.
MainThread ==
    \/ RunCallback \/ RunStep \/ RunChain \/ RunStop
    \/ HandleInterrupt \/ LoopExit \/ WriteExitMsg \/ SysExit

InteractiveThread ==
    \/ RuncodeReturn \/ WritePrompt \/ Finally

FairSpec ==
    /\ Init /\ [][Next]_vars
    /\ WF_vars(MainThread)
    /\ WF_vars(InteractiveThread)

SpecLocals == InitLocals /\ [][Next]_vars

TypeOK ==
    /\ cur \in 0..MaxStmts
    /\ repl_future \in 0..MaxStmts
    /\ keyboard_interrupted \in {"None", "True"}
    /\ interrupts \in 0..MaxInterrupts
    /\ tpc \in {"banner", "startup", "echo", "prompt", "read", "wait", "finally", "dead"}
    /\ dpc \in {"run_forever", "except", "exitmsg", "sys_exit", "exited"}
    /\ submitted \in [Stmts -> {"none", "loop", "gap", "after"}]

\* ------------------------------------------------------------------ claims

\* C1: whenever a statement raised SystemExit(c), in the callback or out of
\* its task through the future, the process exits with status c.
C1_ExitStatusIsRaisedCode ==
    dpc = "exited" => \A e \in raised : exit_status = e[2]

\* C2: once a statement has raised SystemExit (either path), no callback of a
\* later runcode call runs on the loop and locals is not mutated again.
C2_NothingRunsAfterExit ==
    [][raised # {} => ran' = ran /\ locals' = locals]_vars

\* A later statement was entered after the SystemExit and its callback waits
\* in the queue.
C2_Witness ==
    \E e \in raised : e[1] < cur /\ tpc = "wait" /\ cur \notin ran

\* C3: every statement that failed with an ordinary error had a traceback
\* printed by runcode, not the interrupt notice.
C3_OrdinaryErrorPrintsTraceback ==
    \A n \in returned : future[n].err = "error" => printed[n] = "traceback"

\* C4: runcode does not return for a statement with a task before the task is
\* done; when the task completed normally runcode returned its value and both
\* bindings of the statement (before and after the suspension) are in locals.
C4_SuspendedStatementCompletes ==
    \A n \in returned :
        stmts[n].kind \in {"await_value", "await_error", "await_exit"} =>
            /\ TaskDone(n)
            /\ task[n] = "done_value" =>
                  /\ ret[n] = stmts[n].val
                  /\ {<<n, 1>>, <<n, 2>>} \subseteq locals

\* A suspended statement returned its value and a later statement has run.
C4_Witness ==
    \E n \in returned :
        /\ task[n] = "done_value" /\ ret[n] = stmts[n].val /\ ret[n] \in Values
        /\ \E m \in ran : m > n

\* C5: for a non-suspending statement with a value, runcode returns that value
\* only after the callback has run, with the statement's binding in locals; no
\* later statement is entered before runcode has returned.
C5_PlainStatementCompletes ==
    \A n \in Stmts :
        /\ (n \in returned /\ stmts[n].kind = "value") =>
              /\ n \in ran
              /\ ret[n] = stmts[n].val
              /\ <<n, 1>> \in locals
        /\ n < cur => n \in returned

\* A plain statement returned its value and the next statement was entered.
C5_Witness ==
    \E n \in returned :
        stmts[n].kind = "value" /\ ret[n] = stmts[n].val /\ ret[n] \in Values /\ cur > n

\* C6: a cancel request is issued only by the driver's interrupt handler, only
\* to the recorded repl_future and only while it is not done; handling an
\* interrupt cancels exactly that task when it is pending, cancels nothing when
\* it is done, and leaves futures, tasks, results and locals as they were.
C6_CancelOnlyPendingRecordedTask ==
    [][/\ \A n \in Stmts :
             (cancel_requested'[n] /\ ~cancel_requested[n]) =>
                 dpc = "except" /\ n = repl_future /\ ~TaskDone(n)
       /\ (dpc = "except" /\ dpc' # "except") =>
             /\ cancel_requested' =
                   IF repl_future # 0 /\ ~TaskDone(repl_future)
                      THEN [cancel_requested EXCEPT ![repl_future] = TRUE]
                      ELSE cancel_requested
             /\ UNCHANGED <<future, task, ret, printed, returned, locals>>]_vars

\* The task of the current statement was cancelled while an earlier statement's
\* task had completed: the earlier one got no cancel and kept its result.
C6_Witness ==
    \E n \in Stmts :
        /\ cancel_requested[n] /\ repl_future = n
        /\ \E m \in returned :
              m < n /\ task[m] = "done_value" /\ ~cancel_requested[m]
                    /\ ret[m] = stmts[m].val

\* C7: delivering and handling an interrupt leaves the exit code, the stop
\* request, the ready queue and the process alone, and the handler goes back to
\* run_forever.
C7_InterruptNeverEndsSession ==
    [][/\ (interrupts' # interrupts \/ (dpc = "except" /\ dpc' # "except")) =>
             /\ return_code' = return_code
             /\ stopping' = stopping
             /\ ready' = ready
             /\ exit_status' = exit_status
       /\ (dpc = "except" /\ dpc' # "except") => dpc' = "run_forever"]_vars

\* An interrupt was handled while a statement was suspended and the loop runs
\* again with no stop requested.
C7_Witness ==
    /\ interrupts > 0 /\ dpc = "run_forever" /\ ~stopping
    /\ tpc = "wait" /\ task[cur] = "suspended" /\ cancel_requested[cur]
    /\ return_code = 0

\* C8: after end of input, with no SystemExit raised by any statement, the
\* recorded exit code is 0 and the process exits with status 0.
C8_EndOfInputExitsZero ==
    (ended = "eof" /\ raised = {}) =>
        /\ return_code = 0
        /\ dpc = "exited" => exit_status = 0

\* The process exited 0 after end of input in a session that had an interrupt
\* and a statement that printed a traceback or the interrupt notice.
C8_Witness ==
    /\ ended = "eof" /\ raised = {} /\ dpc = "exited" /\ exit_status = 0
    /\ interrupts > 0
    /\ \E n \in returned : printed[n] # ""

\* C9: when the reader fails unexpectedly, in either reader mode, the process
\* exits with status 1.
C9_InternalErrorExitsOne ==
    (ended = "internal" /\ dpc = "exited") => exit_status = 1

\* C10: a custom exitmsg is written exactly once and is the last thing written
\* before the process exits.
C10_ExitMsgIsLastOutput ==
    (dpc = "exited" /\ exitmsg # NoneMsg) =>
        /\ out # <<>>
        /\ out[Len(out)] = exitmsg
        /\ Cardinality({i \in DOMAIN out : out[i] = exitmsg}) = 1

\* C11: nothing is written before the banner, on any interleaving of the
\* interactive thread and the driver; once line 93 has written it, the banner
\* is the first item of the output and occurs exactly once.
C11_BannerIsFirstOutput ==
    /\ tpc = "banner" => out = <<>>
    /\ (tpc # "banner" /\ ended # "banner_fail") =>
          /\ out # <<>>
          /\ out[1] = BannerText
          /\ Cardinality({i \in DOMAIN out : out[i] = BannerText}) = 1

\* A session with a custom banner ran a failing statement and was interrupted,
\* and the driver has written the exit message: the banner is still first.
C11_Witness ==
    /\ banner # NoneMsg /\ out # <<>> /\ out[1] = banner
    /\ dpc = "exited" /\ interrupts > 0
    /\ \E n \in returned : printed[n] # ""

C13_InterruptUnblocksExecute ==
    \A n \in Stmts :
        (dpc = "except" /\ tpc = "wait" /\ cur = n /\ repl_future = n /\ ~TaskDone(n))
            ~> (n \in returned /\ future[n].err = "cancelled" /\ tpc = "read")

\* The cancelled statement's runcode call has returned and the reader waits
\* for the next statement.
C13_Witness ==
    \E n \in returned :
        /\ cancel_requested[n] /\ task[n] = "cancelled"
        /\ future[n].err = "cancelled" /\ tpc = "read"

\* C14: the future of a statement is settled at most once over the callback's
\* paths and the task's completion or cancellation; it is settled exactly once
\* when the callback took any path but the process-exit one and the task's
\* outcome, if a task was spawned, has been delivered; on the process-exit
\* path of the callback it is never settled.
C14_FutureSettledOnce ==
    \A n \in Stmts :
        /\ future[n].writes <= 1
        /\ n \notin ran => future[n].writes = 0
        /\ (n \in ran /\ stmts[n].kind = "exit") => future[n].writes = 0
        /\ (n \in ran /\ stmts[n].kind \in {"value", "error", "kbint", "spawn_fail"})
              => future[n].writes = 1
        /\ (n \in ran /\ stmts[n].kind \in {"await_value", "await_error", "await_exit"})
              => (future[n].writes = 1 <=>
                    (TaskDone(n) /\ \A i \in DOMAIN ready : ready[i] # ChainHandle(n)))
        /\ n \in returned => future[n].writes = 1

\* Both statements ran, one was cancelled by an interrupt and the other was
\* settled by its task's own completion.
C14_Witness ==
    /\ returned = Stmts
    /\ \E n \in Stmts : task[n] = "cancelled" /\ future[n].writes = 1
    /\ \E n \in Stmts : task[n] = "done_value" /\ future[n].writes = 1

\* C15: at most one runcode call is in flight: only the current statement's
\* future can be pending, a statement's callback runs only after every earlier
\* statement's future was settled, and a task that is not done is the recorded
\* repl_future of the current statement, so no task is recorded while an
\* earlier one is still running, wherever interrupts arrive.
C15_OneExecuteInFlight ==
    /\ Cardinality({n \in Stmts : future[n].st = "pending"}) <= 1
    /\ \A n \in Stmts : future[n].st = "pending" => (n = cur /\ tpc = "wait")
    /\ \A n \in ran : \A m \in 1..(n - 1) : future[m].st \in {"fulfilled", "failed"}
    /\ \A n \in Stmts :
          (task[n] # "none" /\ ~TaskDone(n)) =>
              /\ repl_future = n /\ cur = n
              /\ \A m \in Stmts \ {n} : task[m] = "none" \/ TaskDone(m)

\* After an interrupt cancelled the first statement's task, the second
\* statement's task is the recorded one and still running.
C15_Witness ==
    /\ MaxStmts >= 2
    /\ interrupts > 0
    /\ task[1] = "cancelled"
    /\ task[2] = "suspended" /\ repl_future = 2

\* C16: repl_future is None whenever no statement is suspended: it is None
\* until a statement has spawned a task, and once runcode has returned for a
\* statement the console no longer holds that statement's task.
C16_PendingTaskNilWhenIdle ==
    /\ (\A n \in ran : task[n] = "none") => repl_future = 0
    /\ \A n \in returned : repl_future # n

\* C17: every step that changes the namespace is a step of the scheduler
\* thread, taken inside run_forever while the interactive thread stands still
\* (it is blocked in runcode); the interactive thread itself never executes
\* code against the namespace, the startup script included.
C17_NamespaceMutatedOnSchedulerOnly ==
    [][locals' # locals =>
          /\ dpc = "run_forever"
          /\ tpc = "wait" /\ tpc' = tpc]_vars

\* C18: a statement that ended because of an interrupt (KeyboardInterrupt
\* raised while its callback ran, or the cancellation error of its task after
\* the driver cancelled it) made runcode print the interrupt notice and no
\* traceback, and the output holds one notice for each statement that printed
\* one.
C18_InterruptPrintsNoticeOnce ==
    /\ \A n \in returned :
          (future[n].err \in {"kbint", "cancelled"}) => printed[n] = "notice"
    /\ Cardinality({i \in DOMAIN out : out[i] = InterruptNotice})
          = Cardinality({n \in returned : printed[n] = "notice"})

\* One statement was interrupted inside its callback and another one was
\* cancelled by the driver; both have returned.
C18_Witness ==
    /\ \E n \in returned : future[n].err = "kbint" /\ printed[n] = "notice"
    /\ \E n \in returned : future[n].err = "cancelled" /\ printed[n] = "notice"

\* C19: however REPLThread.run ends (end of input, SystemExit out of the
\* reader, an internal error, a failure of the banner write or of the startup
\* script), its finally clause submits loop.stop, and under fair scheduling
\* run_forever returns, the exit message is written and the process exits with
\* the recorded return code.
C19_ThreadEndStopsSession ==
    (tpc = "finally")
        ~> (/\ dpc = "exited"
            /\ exit_status = return_code
            /\ \E i \in DOMAIN out : out[i] = ExitText)

\* The reader failed with an internal error, the thread submitted the stop and
\* the process exited with status 1 after the exit message.
C19_Witness ==
    /\ ended = "internal" /\ tpc = "dead"
    /\ dpc = "exited" /\ exit_status = 1 /\ return_code = 1
    /\ out # <<>> /\ out[Len(out)] = ExitText

\* A stop of the loop has been requested and not yet taken.
StopRequested == stopping \/ \E i \in DOMAIN ready : ready[i] = StopHandle

\* Statement n's callback was submitted while the driver was in its interrupt
\* handler, between two run_forever calls, and no stop is requested.
SubmittedInGap(n) ==
    /\ submitted[n] = "gap" /\ dpc = "except"
    /\ tpc = "wait" /\ cur = n /\ n \notin ran
    /\ ~StopRequested

\* C20 as stated: a callback submitted in the gap runs, is no longer queued,
\* and the blocked runcode call returns.
C20_GapCallbackReturns ==
    \A n \in Stmts :
        SubmittedInGap(n)
            ~> (n \in ran /\ n \in returned
                /\ \A i \in DOMAIN ready : ready[i] # CallbackHandle(n))

\* C20 amended: a callback submitted in the gap runs and is no longer queued;
\* the blocked runcode call returns unless the statement raised SystemExit in
\* the callback, in which case the future stays pending, the loop stops and
\* the process exits with runcode still blocked.
C20_GapCallbackRuns ==
    \A n \in Stmts :
        SubmittedInGap(n)
            ~> (/\ n \in ran
                /\ \A i \in DOMAIN ready : ready[i] # CallbackHandle(n)
                /\ \/ n \in returned
                   \/ /\ stmts[n].kind = "exit" /\ future[n].st = "pending"
                      /\ tpc = "wait" /\ dpc = "exited")

\* A statement submitted in the gap whose runcode call has returned.
C20_Witness ==
    \E n \in returned : submitted[n] = "gap" /\ n \in ran

====
